---- MODULE Spec2Model ----
(***************************************************************************)
(* State-machine model of scripts/archive/test-iokit-ep2.c: one run of     *)
(* main(), a USB session that matches a device, binds and opens it, binds  *)
(* and opens its first interface, enumerates the pipes, writes two probe   *)
(* frames, streams 200 frames to pipe 1 and releases what it acquired.     *)
(* The platform (IOKit) is the environment: every status and every object  *)
(* it returns is chosen nondeterministically.                              *)
(***************************************************************************)
EXTENDS Integers, Sequences, FiniteSets, TLC

\* Program constants.
FrameCount == 200
UInt8Max == 255
ExitFailure == 1
ExitSuccess == 0
ExitSignal == 128 + 11

\* Bounds of the model.
MaxSmallEndpoints == 3
MaxQueries == 260

\* The objects the platform can hand to the program.
Handles ==
  {"devIterator", "usbDevice", "devPlugIn", "deviceInterface",
   "ifIterator", "usbInterface", "ifPlugIn", "interfaceInterface"}

Status == {"ok", "fail"}

\* Endpoint counts the platform reports (and the values an uninitialised
\* UInt8 can hold): the small counts and the two largest UInt8 values.
EndpointCounts == (0 .. MaxSmallEndpoints) \cup {UInt8Max - 1, UInt8Max}

\* What a call that creates an object can answer: an object with a success
\* status, a success status without an object, or a failure status.
CreateResponses == {"ok", "okNone", "fail"}

\* The calls whose failure ends the session, by acquisition step.
FatalCalls ==
  {"dict", "match", "devNext", "devPlug", "devQuery", "open", "seize",
   "ifIter", "ifNext", "ifPlug", "ifQuery"}

VARIABLES
  pc,                  \* position in main()
  kr,                  \* kern_return_t kr
  result,              \* HRESULT result
  plugInInterface,     \* IOCFPlugInInterface **plugInInterface
  deviceInterface,     \* IOUSBDeviceInterface **deviceInterface
  interfaceInterface,  \* IOUSBInterfaceInterface **interfaceInterface
  numEndpoints,        \* UInt8 numEndpoints
  iPipe,               \* UInt8 i of the pipe loop
  iFrame,              \* int i of the frame loop
  hs,                  \* platform side: state of every handle
  rel,                 \* platform side: number of releases of every handle
  uar,                 \* platform side: handles called after their release
  devOpen,             \* platform side: the device is open
  ifOpen,              \* platform side: the interface is open
  calls,               \* the platform calls issued outside the two loops
  queries,             \* number of GetPipeProperties calls (saturating)
  lastQuery,           \* pipe index of the last GetPipeProperties call
  sends,               \* number of WritePipe calls of the frame loop
  sleeps,              \* number of usleep calls of the frame loop
  resp,                \* what the platform answered to the fatal calls
  firstSend,           \* status of the first send of the frame loop
  numEpStatus,         \* status of the GetNumEndpoints call
  softFail,            \* some non-fatal call returned a failure status
  exitStatus           \* process exit status, -1 while running

vars ==
  <<pc, kr, result, plugInInterface, deviceInterface, interfaceInterface,
    numEndpoints, iPipe, iFrame, hs, rel, uar, devOpen, ifOpen, calls,
    queries, lastQuery, sends, sleeps, resp, firstSend, numEpStatus,
    softFail, exitStatus>>

progVars ==
  <<plugInInterface, deviceInterface, interfaceInterface, numEndpoints,
    iPipe, iFrame>>
loopVars == <<queries, lastQuery, sends, sleeps, firstSend, numEpStatus>>
openVars == <<devOpen, ifOpen>>

----------------------------------------------------------------------------
\* Helpers on the platform-side bookkeeping.

Acquired(H, h) == [H EXCEPT ![h] = "held"]
ReleasedIn(H, S) == [x \in Handles |-> IF x \in S THEN "released" ELSE H[x]]
CountedIn(R, S) == [x \in Handles |-> IF x \in S THEN R[x] + 1 ELSE R[x]]
\* A call on handle h: remembered when h was already released.
UsedIn(U, H, h) == IF H[h] = "released" THEN U \cup {h} ELSE U

Call(fn, h) == <<fn, h>>

\* return 1
Return1 ==
  /\ pc' = "exit"
  /\ exitStatus' = ExitFailure

\* The process is killed by a signal (invalid memory access).
Crash ==
  /\ pc' = "exit"
  /\ exitStatus' = ExitSignal

\* USBDeviceClose + Release of the device interface on an error return.
DeviceCleanupCalls ==
  <<Call("USBDeviceClose", "deviceInterface"),
    Call("Release", "deviceInterface")>>

Init ==
  /\ pc = "IOServiceMatching"
  /\ kr = "unset"
  /\ result = "unset"
  /\ plugInInterface = "NULL"
  /\ deviceInterface = "NULL"
  /\ interfaceInterface = "NULL"
  /\ numEndpoints \in EndpointCounts
  /\ iPipe = 0
  /\ iFrame = 0
  /\ hs = [h \in Handles |-> "none"]
  /\ rel = [h \in Handles |-> 0]
  /\ uar = {}
  /\ devOpen = FALSE
  /\ ifOpen = FALSE
  /\ calls = <<>>
  /\ queries = 0
  /\ lastQuery = 0
  /\ sends = 0
  /\ sleeps = 0
  /\ resp = [c \in FatalCalls |-> "none"]
  /\ firstSend = "none"
  /\ numEpStatus = "none"
  /\ softFail = FALSE
  /\ exitStatus = -1

----------------------------------------------------------------------------
\* Step 1, Match.

\* lines 34-38: create the matching dictionary.
ServiceMatching ==
  /\ pc = "IOServiceMatching"
  /\ \E r \in Status :
       /\ resp' = [resp EXCEPT !["dict"] = r]
       /\ calls' = Append(calls, Call("IOServiceMatching", "none"))
       /\ IF r = "ok"
            THEN pc' = "IOServiceGetMatchingServices" /\ UNCHANGED exitStatus
            ELSE Return1
  /\ UNCHANGED <<kr, result, progVars, hs, rel, uar, openVars, loopVars,
                 softFail>>

\* lines 45-49: search the registry; a success hands out the iterator.
GetMatchingServices ==
  /\ pc = "IOServiceGetMatchingServices"
  /\ \E r \in Status :
       /\ kr' = r
       /\ resp' = [resp EXCEPT !["match"] = r]
       /\ calls' = Append(calls, Call("IOServiceGetMatchingServices", "none"))
       /\ IF r = "ok"
            THEN /\ hs' = Acquired(hs, "devIterator")
                 /\ pc' = "IOIteratorNext"
                 /\ UNCHANGED exitStatus
            ELSE /\ UNCHANGED hs
                 /\ Return1
  /\ UNCHANGED <<result, progVars, rel, uar, openVars, loopVars, softFail>>

\* The test !usbDevice of line 53, on what IOIteratorNext answered.
NoDeviceIgnored(r) == FALSE
NoDevice(r) == r # "ok"

\* lines 51-57: take the first device, release the iterator, stop when
\* there is no device.
FindDevice ==
  /\ pc = "IOIteratorNext"
  /\ \E r \in Status :
       /\ resp' = [resp EXCEPT !["devNext"] = r]
       /\ calls' = calls \o <<Call("IOIteratorNext", "devIterator"),
                              Call("IOObjectRelease", "devIterator")>>
       /\ uar' = UsedIn(uar, hs, "devIterator")
       /\ rel' = CountedIn(rel, {"devIterator"})
       /\ hs' = ReleasedIn(IF r = "ok" THEN Acquired(hs, "usbDevice") ELSE hs,
                           {"devIterator"})
       /\ IF NoDevice(r)
            THEN Return1
            ELSE pc' = "CreateDevicePlugIn" /\ UNCHANGED exitStatus
  /\ UNCHANGED <<kr, result, progVars, openVars, loopVars, softFail>>

----------------------------------------------------------------------------
\* Step 2, BindDeviceInterface.

\* CreateDevicePlugIn with the release of the matched service placed after
\* the test, so that a failed creation returns without releasing it.
CreateDevicePlugInReleaseLate ==
  /\ pc = "CreateDevicePlugIn"
  /\ \E r \in CreateResponses :
       /\ kr' = IF r = "fail" THEN "fail" ELSE "ok"
       /\ resp' = [resp EXCEPT !["devPlug"] = r]
       /\ plugInInterface' = IF r = "ok" THEN "devPlugIn" ELSE "NULL"
       /\ uar' = UsedIn(uar, hs, "usbDevice")
       /\ IF kr' # "ok" \/ plugInInterface' = "NULL"
            THEN /\ calls' = Append(calls, Call("IOCreatePlugInInterfaceForService", "usbDevice"))
                 /\ UNCHANGED <<rel, hs>>
                 /\ Return1
            ELSE /\ calls' = calls \o <<Call("IOCreatePlugInInterfaceForService", "usbDevice"),
                                        Call("IOObjectRelease", "usbDevice")>>
                 /\ rel' = CountedIn(rel, {"usbDevice"})
                 /\ hs' = ReleasedIn(Acquired(hs, "devPlugIn"), {"usbDevice"})
                 /\ pc' = "QueryDeviceInterface"
                 /\ UNCHANGED exitStatus
  /\ UNCHANGED <<result, deviceInterface, interfaceInterface, numEndpoints,
                 iPipe, iFrame, openVars, loopVars, softFail>>

\* lines 60-66: create the plug-in of the device, release the matched
\* service, stop on a failure status or a missing plug-in.
CreateDevicePlugIn ==
  /\ pc = "CreateDevicePlugIn"
  /\ \E r \in CreateResponses :
       /\ kr' = IF r = "fail" THEN "fail" ELSE "ok"
       /\ resp' = [resp EXCEPT !["devPlug"] = r]
       /\ plugInInterface' = IF r = "ok" THEN "devPlugIn" ELSE "NULL"
       /\ calls' = calls \o <<Call("IOCreatePlugInInterfaceForService", "usbDevice"),
                              Call("IOObjectRelease", "usbDevice")>>
       /\ uar' = UsedIn(uar, hs, "usbDevice")
       /\ rel' = CountedIn(rel, {"usbDevice"})
       /\ hs' = ReleasedIn(IF r = "ok" THEN Acquired(hs, "devPlugIn") ELSE hs,
                           {"usbDevice"})
       /\ IF kr' # "ok" \/ plugInInterface' = "NULL"
            THEN Return1
            ELSE pc' = "QueryDeviceInterface" /\ UNCHANGED exitStatus
  /\ UNCHANGED <<result, deviceInterface, interfaceInterface, numEndpoints,
                 iPipe, iFrame, openVars, loopVars, softFail>>

\* lines 68-76: ask the plug-in for the device interface, release the
\* plug-in, stop on a failure result or a missing interface.
QueryDeviceInterface ==
  /\ pc = "QueryDeviceInterface"
  /\ \E r \in CreateResponses :
       /\ result' = IF r = "fail" THEN "fail" ELSE "ok"
       /\ resp' = [resp EXCEPT !["devQuery"] = r]
       /\ deviceInterface' = IF r = "ok" THEN "deviceInterface" ELSE "NULL"
       /\ calls' = calls \o <<Call("QueryInterface", plugInInterface),
                              Call("Release", plugInInterface)>>
       /\ uar' = UsedIn(uar, hs, plugInInterface)
       /\ rel' = CountedIn(rel, {plugInInterface})
       /\ hs' = ReleasedIn(IF r = "ok" THEN Acquired(hs, "deviceInterface") ELSE hs,
                           {plugInInterface})
       /\ IF result' # "ok" \/ deviceInterface' = "NULL"
            THEN Return1
            ELSE pc' = "USBDeviceOpen" /\ UNCHANGED exitStatus
  /\ UNCHANGED <<kr, plugInInterface, interfaceInterface, numEndpoints,
                 iPipe, iFrame, openVars, loopVars, softFail>>

----------------------------------------------------------------------------
\* Step 3, OpenDevice.

\* The test of line 80 on the status of the first open attempt.
OpenFailedIgnored(k) == FALSE
OpenFailed(k) == k # "ok"

\* The test of line 84 on the status of the seize attempt.
SeizeFailedIgnored(k) == FALSE
SeizeFailed(k) == k # "ok"

\* lines 79-82 and 90: first open attempt.
USBDeviceOpen ==
  /\ pc = "USBDeviceOpen"
  /\ \E r \in Status :
       /\ kr' = r
       /\ resp' = [resp EXCEPT !["open"] = r]
       /\ devOpen' = (r = "ok")
       /\ calls' = Append(calls, Call("USBDeviceOpen", deviceInterface))
       /\ uar' = UsedIn(uar, hs, deviceInterface)
       /\ pc' = IF OpenFailed(kr') THEN "USBDeviceOpenSeize" ELSE "SetConfiguration"
  /\ UNCHANGED <<result, progVars, hs, rel, ifOpen, loopVars, softFail,
                 exitStatus>>

\* USBDeviceOpenSeize that skips the configuration after a successful
\* seize.
USBDeviceOpenSeizeSkipsConfigure ==
  /\ pc = "USBDeviceOpenSeize"
  /\ \E r \in Status :
       /\ kr' = r
       /\ resp' = [resp EXCEPT !["seize"] = r]
       /\ devOpen' = (r = "ok")
       /\ uar' = UsedIn(uar, hs, deviceInterface)
       /\ IF SeizeFailed(kr')
            THEN /\ calls' = calls \o <<Call("USBDeviceOpenSeize", deviceInterface),
                                        Call("Release", deviceInterface)>>
                 /\ rel' = CountedIn(rel, {deviceInterface})
                 /\ hs' = ReleasedIn(hs, {deviceInterface})
                 /\ Return1
            ELSE /\ calls' = Append(calls, Call("USBDeviceOpenSeize", deviceInterface))
                 /\ pc' = "CreateInterfaceIterator"
                 /\ UNCHANGED <<rel, hs, exitStatus>>
  /\ UNCHANGED <<result, progVars, ifOpen, loopVars, softFail>>

\* USBDeviceOpenSeize that goes back to the first open attempt when the
\* seize fails.
USBDeviceOpenSeizeRetry ==
  /\ pc = "USBDeviceOpenSeize"
  /\ \E r \in Status :
       /\ kr' = r
       /\ resp' = [resp EXCEPT !["seize"] = r]
       /\ devOpen' = (r = "ok")
       /\ uar' = UsedIn(uar, hs, deviceInterface)
       /\ calls' = Append(calls, Call("USBDeviceOpenSeize", deviceInterface))
       /\ pc' = IF SeizeFailed(kr') THEN "USBDeviceOpen" ELSE "SetConfiguration"
  /\ UNCHANGED <<result, progVars, hs, rel, ifOpen, loopVars, softFail,
                 exitStatus>>

\* lines 83-90: the seize fallback; when it fails too, release the device
\* interface and stop.
USBDeviceOpenSeize ==
  /\ pc = "USBDeviceOpenSeize"
  /\ \E r \in Status :
       /\ kr' = r
       /\ resp' = [resp EXCEPT !["seize"] = r]
       /\ devOpen' = (r = "ok")
       /\ uar' = UsedIn(uar, hs, deviceInterface)
       /\ IF SeizeFailed(kr')
            THEN /\ calls' = calls \o <<Call("USBDeviceOpenSeize", deviceInterface),
                                        Call("Release", deviceInterface)>>
                 /\ rel' = CountedIn(rel, {deviceInterface})
                 /\ hs' = ReleasedIn(hs, {deviceInterface})
                 /\ Return1
            ELSE /\ calls' = Append(calls, Call("USBDeviceOpenSeize", deviceInterface))
                 /\ pc' = "SetConfiguration"
                 /\ UNCHANGED <<rel, hs, exitStatus>>
  /\ UNCHANGED <<result, progVars, ifOpen, loopVars, softFail>>

----------------------------------------------------------------------------
\* Step 4, Configure.

\* SetConfiguration with a failure status handled like the failure of a
\* fatal step.
SetConfigurationFatal ==
  /\ pc = "SetConfiguration"
  /\ \E r \in Status :
       /\ kr' = r
       /\ softFail' = (softFail \/ r = "fail")
       /\ uar' = UsedIn(uar, hs, deviceInterface)
       /\ IF kr' # "ok"
            THEN /\ calls' = Append(calls, Call("SetConfiguration", deviceInterface))
                              \o DeviceCleanupCalls
                 /\ devOpen' = FALSE
                 /\ rel' = CountedIn(rel, {deviceInterface})
                 /\ hs' = ReleasedIn(hs, {deviceInterface})
                 /\ Return1
            ELSE /\ calls' = Append(calls, Call("SetConfiguration", deviceInterface))
                 /\ pc' = "CreateInterfaceIterator"
                 /\ UNCHANGED <<devOpen, rel, hs, exitStatus>>
  /\ UNCHANGED <<result, progVars, ifOpen, loopVars, resp>>

\* lines 93-94: select configuration 1; the status is only printed.
SetConfiguration ==
  /\ pc = "SetConfiguration"
  /\ \E r \in Status :
       /\ kr' = r
       /\ softFail' = (softFail \/ r = "fail")
       /\ calls' = Append(calls, Call("SetConfiguration", deviceInterface))
       /\ uar' = UsedIn(uar, hs, deviceInterface)
       /\ pc' = "CreateInterfaceIterator"
  /\ UNCHANGED <<result, progVars, hs, rel, openVars, loopVars, resp,
                 exitStatus>>

----------------------------------------------------------------------------
\* Step 5, FindInterface.

\* lines 97-109: ask for the interface iterator; on a failure close and
\* release the device interface and stop.
CreateInterfaceIterator ==
  /\ pc = "CreateInterfaceIterator"
  /\ \E r \in Status :
       /\ kr' = r
       /\ resp' = [resp EXCEPT !["ifIter"] = r]
       /\ uar' = UsedIn(uar, hs, deviceInterface)
       /\ IF kr' # "ok"
            THEN /\ calls' = Append(calls, Call("CreateInterfaceIterator", deviceInterface))
                              \o DeviceCleanupCalls
                 /\ devOpen' = FALSE
                 /\ rel' = CountedIn(rel, {deviceInterface})
                 /\ hs' = ReleasedIn(hs, {deviceInterface})
                 /\ Return1
            ELSE /\ calls' = Append(calls, Call("CreateInterfaceIterator", deviceInterface))
                 /\ hs' = Acquired(hs, "ifIterator")
                 /\ pc' = "IOIteratorNextInterface"
                 /\ UNCHANGED <<devOpen, rel, exitStatus>>
  /\ UNCHANGED <<result, progVars, ifOpen, loopVars, softFail>>

\* lines 111-118: take the first interface, release the iterator; without
\* an interface close and release the device interface and stop.
FindInterface ==
  /\ pc = "IOIteratorNextInterface"
  /\ \E r \in Status :
       /\ resp' = [resp EXCEPT !["ifNext"] = r]
       /\ uar' = UsedIn(uar, hs, "ifIterator")
       /\ IF r # "ok"
            THEN /\ calls' = calls \o <<Call("IOIteratorNext", "ifIterator"),
                                        Call("IOObjectRelease", "ifIterator")>>
                              \o DeviceCleanupCalls
                 /\ devOpen' = FALSE
                 /\ rel' = CountedIn(rel, {"ifIterator", deviceInterface})
                 /\ hs' = ReleasedIn(hs, {"ifIterator", deviceInterface})
                 /\ Return1
            ELSE /\ calls' = calls \o <<Call("IOIteratorNext", "ifIterator"),
                                        Call("IOObjectRelease", "ifIterator")>>
                 /\ rel' = CountedIn(rel, {"ifIterator"})
                 /\ hs' = ReleasedIn(Acquired(hs, "usbInterface"), {"ifIterator"})
                 /\ pc' = "CreateInterfacePlugIn"
                 /\ UNCHANGED <<devOpen, exitStatus>>
  /\ UNCHANGED <<kr, result, progVars, ifOpen, loopVars, softFail>>

----------------------------------------------------------------------------
\* Step 6, BindInterfaceInterface.

\* The test of line 124 on the status of the plug-in creation.
InterfacePlugInFailed(k, p) == k # "ok"

\* lines 121-129: create the plug-in of the interface, release the
\* interface service; on a failure status close and release the device
\* interface and stop.  A call that produces no plug-in either stores
\* NULL in plugInInterface or leaves it as it was (still pointing at the
\* released plug-in of the device).
CreateInterfacePlugIn ==
  /\ pc = "CreateInterfacePlugIn"
  /\ \E r \in CreateResponses, stored \in BOOLEAN :
       /\ kr' = IF r = "fail" THEN "fail" ELSE "ok"
       /\ resp' = [resp EXCEPT !["ifPlug"] = r]
       /\ plugInInterface' = IF r = "ok" THEN "ifPlugIn"
                             ELSE IF stored THEN "NULL" ELSE plugInInterface
       /\ uar' = UsedIn(uar, hs, "usbInterface")
       /\ IF InterfacePlugInFailed(kr', plugInInterface')
            THEN /\ calls' = calls \o <<Call("IOCreatePlugInInterfaceForService", "usbInterface"),
                                        Call("IOObjectRelease", "usbInterface")>>
                              \o DeviceCleanupCalls
                 /\ devOpen' = FALSE
                 /\ rel' = CountedIn(rel, {"usbInterface", deviceInterface})
                 /\ hs' = ReleasedIn(IF r = "ok" THEN Acquired(hs, "ifPlugIn") ELSE hs,
                                     {"usbInterface", deviceInterface})
                 /\ Return1
            ELSE /\ calls' = calls \o <<Call("IOCreatePlugInInterfaceForService", "usbInterface"),
                                        Call("IOObjectRelease", "usbInterface")>>
                 /\ rel' = CountedIn(rel, {"usbInterface"})
                 /\ hs' = ReleasedIn(IF r = "ok" THEN Acquired(hs, "ifPlugIn") ELSE hs,
                                     {"usbInterface"})
                 /\ pc' = "QueryInterfaceInterface"
                 /\ UNCHANGED <<devOpen, exitStatus>>
  /\ UNCHANGED <<result, deviceInterface, interfaceInterface, numEndpoints,
                 iPipe, iFrame, ifOpen, loopVars, softFail>>

\* lines 131-133: ask the plug-in for the interface interface.  The call
\* goes through plugInInterface: through NULL the process is killed;
\* through a released plug-in the behaviour is undefined, and the process
\* is killed or the call returns a failure.
QueryInterfaceInterface ==
  /\ pc = "QueryInterfaceInterface"
  /\ \/ /\ plugInInterface = "NULL"
        /\ Crash
        /\ UNCHANGED <<result, interfaceInterface, hs, uar, calls, resp>>
     \/ /\ plugInInterface # "NULL"
        /\ hs[plugInInterface] = "released"
        /\ calls' = Append(calls, Call("QueryInterface", plugInInterface))
        /\ uar' = UsedIn(uar, hs, plugInInterface)
        /\ \/ /\ Crash
              /\ UNCHANGED <<result, resp>>
           \/ /\ result' = "fail"
              /\ resp' = [resp EXCEPT !["ifQuery"] = "fail"]
              /\ pc' = "ReleaseInterfacePlugIn"
              /\ UNCHANGED exitStatus
        /\ UNCHANGED <<interfaceInterface, hs>>
     \/ /\ plugInInterface # "NULL"
        /\ hs[plugInInterface] = "held"
        /\ \E r \in CreateResponses :
             /\ result' = IF r = "fail" THEN "fail" ELSE "ok"
             /\ resp' = [resp EXCEPT !["ifQuery"] = r]
             /\ interfaceInterface' = IF r = "ok" THEN "interfaceInterface" ELSE "NULL"
             /\ hs' = IF r = "ok" THEN Acquired(hs, "interfaceInterface") ELSE hs
        /\ calls' = Append(calls, Call("QueryInterface", plugInInterface))
        /\ pc' = "ReleaseInterfacePlugIn"
        /\ UNCHANGED <<uar, exitStatus>>
  /\ UNCHANGED <<kr, plugInInterface, deviceInterface, numEndpoints, iPipe,
                 iFrame, rel, openVars, loopVars, softFail>>

\* lines 134-141: release the plug-in; on a failure result or a missing
\* interface close and release the device interface and stop.  Releasing
\* an already released plug-in is undefined: the process is killed or goes
\* on.
ReleaseInterfacePlugIn ==
  /\ pc = "ReleaseInterfacePlugIn"
  /\ uar' = UsedIn(uar, hs, plugInInterface)
  /\ \/ /\ hs[plugInInterface] = "released"
        /\ calls' = Append(calls, Call("Release", plugInInterface))
        /\ rel' = CountedIn(rel, {plugInInterface})
        /\ Crash
        /\ UNCHANGED <<hs, devOpen>>
     \/ IF result # "ok" \/ interfaceInterface = "NULL"
          THEN /\ calls' = Append(calls, Call("Release", plugInInterface))
                            \o DeviceCleanupCalls
               /\ devOpen' = FALSE
               /\ rel' = CountedIn(rel, {plugInInterface, deviceInterface})
               /\ hs' = ReleasedIn(hs, {plugInInterface, deviceInterface})
               /\ Return1
          ELSE /\ calls' = Append(calls, Call("Release", plugInInterface))
               /\ rel' = CountedIn(rel, {plugInInterface})
               /\ hs' = ReleasedIn(hs, {plugInInterface})
               /\ pc' = "USBInterfaceOpen"
               /\ UNCHANGED <<devOpen, exitStatus>>
  /\ UNCHANGED <<kr, result, progVars, ifOpen, loopVars, resp, softFail>>

----------------------------------------------------------------------------
\* Step 7, OpenInterface.

\* lines 144-145: open the interface; the status is only printed.
USBInterfaceOpen ==
  /\ pc = "USBInterfaceOpen"
  /\ \E r \in Status :
       /\ kr' = r
       /\ ifOpen' = (r = "ok")
       /\ softFail' = (softFail \/ r = "fail")
       /\ calls' = Append(calls, Call("USBInterfaceOpen", interfaceInterface))
       /\ uar' = UsedIn(uar, hs, interfaceInterface)
       /\ pc' = "GetNumEndpoints"
  /\ UNCHANGED <<result, progVars, hs, rel, devOpen, loopVars, resp,
                 exitStatus>>

----------------------------------------------------------------------------
\* Pipe enumeration.

\* The test i <= numEndpoints of the pipe loop (line 152): the next call.
AfterPipeTest(i, n) == IF i <= n THEN "GetPipeProperties" ELSE "WritePipe1"

\* i++ on a UInt8 (line 152).
NextPipeIndex(i) == (i + 1) % (UInt8Max + 1)

\* lines 148-152: ask for the endpoint count and enter the pipe loop with
\* i = 1.  A failing call leaves numEndpoints as it was, uninitialised.
GetNumEndpoints ==
  /\ pc = "GetNumEndpoints"
  /\ \E r \in Status, n \in EndpointCounts :
       /\ kr' = r
       /\ numEndpoints' = IF r = "ok" THEN n ELSE numEndpoints
       /\ numEpStatus' = r
       /\ softFail' = (softFail \/ r = "fail")
       /\ calls' = Append(calls, Call("GetNumEndpoints", interfaceInterface))
       /\ uar' = UsedIn(uar, hs, interfaceInterface)
       /\ iPipe' = 1
       /\ pc' = AfterPipeTest(iPipe', numEndpoints')
  /\ UNCHANGED <<result, plugInInterface, deviceInterface, interfaceInterface,
                 iFrame, hs, rel, openVars, queries, lastQuery, sends, sleeps,
                 firstSend, resp, exitStatus>>

\* lines 152-159: one round of the pipe loop; the status is only printed.
GetPipeProperties ==
  /\ pc = "GetPipeProperties"
  /\ \E r \in Status :
       /\ kr' = r
       /\ softFail' = (softFail \/ r = "fail")
       /\ uar' = UsedIn(uar, hs, interfaceInterface)
       /\ queries' = IF queries < MaxQueries THEN queries + 1 ELSE queries
       /\ lastQuery' = iPipe
       /\ iPipe' = NextPipeIndex(iPipe)
       /\ pc' = AfterPipeTest(iPipe', numEndpoints)
  /\ UNCHANGED <<result, plugInInterface, deviceInterface, interfaceInterface,
                 numEndpoints, iFrame, hs, rel, openVars, calls, sends, sleeps,
                 firstSend, numEpStatus, resp, exitStatus>>

----------------------------------------------------------------------------
\* Probe writes.

\* lines 162-172: write one frame to pipe 1; the status is only printed.
WritePipe1 ==
  /\ pc = "WritePipe1"
  /\ \E r \in Status :
       /\ kr' = r
       /\ softFail' = (softFail \/ r = "fail")
       /\ calls' = Append(calls, Call("WritePipe(1)", interfaceInterface))
       /\ uar' = UsedIn(uar, hs, interfaceInterface)
       /\ pc' = "WritePipe2"
  /\ UNCHANGED <<result, progVars, hs, rel, openVars, loopVars, resp,
                 exitStatus>>

\* lines 193-196: the cleanup statements, in program order.
TeardownStepsReleaseFirst ==
  <<"USBInterfaceClose", "ReleaseInterface", "ReleaseDevice", "USBDeviceClose">>
TeardownSteps ==
  <<"USBInterfaceClose", "ReleaseInterface", "USBDeviceClose", "ReleaseDevice">>

\* The test i < 200 of the frame loop (line 182): the next call.
AfterFrameTest(i) == IF i < FrameCount THEN "WritePipeFrame" ELSE TeardownSteps[1]

\* lines 175-182: write one frame to pipe 2; the status is only printed;
\* enter the frame loop with i = 0.
WritePipe2 ==
  /\ pc = "WritePipe2"
  /\ \E r \in Status :
       /\ kr' = r
       /\ softFail' = (softFail \/ r = "fail")
       /\ calls' = Append(calls, Call("WritePipe(2)", interfaceInterface))
       /\ uar' = UsedIn(uar, hs, interfaceInterface)
       /\ iFrame' = 0
       /\ pc' = AfterFrameTest(iFrame')
  /\ UNCHANGED <<result, plugInInterface, deviceInterface, interfaceInterface,
                 numEndpoints, iPipe, hs, rel, openVars, loopVars, resp,
                 exitStatus>>

----------------------------------------------------------------------------
\* Frame streamer.

\* The test of line 184 that leaves the frame loop.
StreamAbortAnyFrame(k, i) == k # "ok"
StreamAbortSecondFrame(k, i) == k # "ok" /\ i = 1
StreamAbort(k, i) == k # "ok" /\ i = 0

\* lines 183-187: send one frame to pipe 1; leave the loop when the send
\* of frame 0 failed.
WritePipeFrame ==
  /\ pc = "WritePipeFrame"
  /\ \E r \in Status :
       /\ kr' = r
       /\ softFail' = (softFail \/ r = "fail")
       /\ firstSend' = IF iFrame = 0 THEN r ELSE firstSend
       /\ sends' = sends + 1
       /\ uar' = UsedIn(uar, hs, interfaceInterface)
       /\ pc' = IF StreamAbort(kr', iFrame) THEN TeardownSteps[1] ELSE "usleep"
  /\ UNCHANGED <<result, progVars, hs, rel, openVars, calls, queries,
                 lastQuery, sleeps, numEpStatus, resp, exitStatus>>

\* lines 188 and 182: sleep one interval, i++, test the loop condition.
Sleep ==
  /\ pc = "usleep"
  /\ sleeps' = sleeps + 1
  /\ iFrame' = iFrame + 1
  /\ pc' = AfterFrameTest(iFrame')
  /\ UNCHANGED <<kr, result, plugInInterface, deviceInterface,
                 interfaceInterface, numEndpoints, iPipe, hs, rel, uar,
                 openVars, calls, queries, lastQuery, sends, firstSend,
                 numEpStatus, resp, softFail, exitStatus>>

----------------------------------------------------------------------------
\* Session teardown.

\* The statement after cleanup statement p; after the last one, line 199.
AfterTeardownStep(p) ==
  LET k == CHOOSE j \in 1 .. Len(TeardownSteps) : TeardownSteps[j] = p
  IN  IF k < Len(TeardownSteps) THEN TeardownSteps[k + 1] ELSE "exit"

\* Go on to the next cleanup statement, or return 0 (line 199).
TeardownAdvance ==
  /\ pc' = AfterTeardownStep(pc)
  /\ exitStatus' = IF pc' = "exit" THEN ExitSuccess ELSE exitStatus

\* line 193
USBInterfaceClose ==
  /\ pc = "USBInterfaceClose"
  /\ ifOpen' = FALSE
  /\ calls' = Append(calls, Call("USBInterfaceClose", interfaceInterface))
  /\ uar' = UsedIn(uar, hs, interfaceInterface)
  /\ TeardownAdvance
  /\ UNCHANGED <<kr, result, progVars, hs, rel, devOpen, loopVars, resp,
                 softFail>>

\* line 194
ReleaseInterface ==
  /\ pc = "ReleaseInterface"
  /\ calls' = Append(calls, Call("Release", interfaceInterface))
  /\ uar' = UsedIn(uar, hs, interfaceInterface)
  /\ rel' = CountedIn(rel, {interfaceInterface})
  /\ hs' = ReleasedIn(hs, {interfaceInterface})
  /\ TeardownAdvance
  /\ UNCHANGED <<kr, result, progVars, openVars, loopVars, resp, softFail>>

\* line 195
USBDeviceClose ==
  /\ pc = "USBDeviceClose"
  /\ devOpen' = FALSE
  /\ calls' = Append(calls, Call("USBDeviceClose", deviceInterface))
  /\ uar' = UsedIn(uar, hs, deviceInterface)
  /\ TeardownAdvance
  /\ UNCHANGED <<kr, result, progVars, hs, rel, ifOpen, loopVars, resp,
                 softFail>>

\* line 196
ReleaseDevice ==
  /\ pc = "ReleaseDevice"
  /\ calls' = Append(calls, Call("Release", deviceInterface))
  /\ uar' = UsedIn(uar, hs, deviceInterface)
  /\ rel' = CountedIn(rel, {deviceInterface})
  /\ hs' = ReleasedIn(hs, {deviceInterface})
  /\ TeardownAdvance
  /\ UNCHANGED <<kr, result, progVars, openVars, loopVars, resp, softFail>>

Next ==
  \/ ServiceMatching
  \/ GetMatchingServices
  \/ FindDevice
  \/ CreateDevicePlugIn
  \/ QueryDeviceInterface
  \/ USBDeviceOpen
  \/ USBDeviceOpenSeize
  \/ SetConfiguration
  \/ CreateInterfaceIterator
  \/ FindInterface
  \/ CreateInterfacePlugIn
  \/ QueryInterfaceInterface
  \/ ReleaseInterfacePlugIn
  \/ USBInterfaceOpen
  \/ GetNumEndpoints
  \/ GetPipeProperties
  \/ WritePipe1
  \/ WritePipe2
  \/ WritePipeFrame
  \/ Sleep
  \/ USBInterfaceClose
  \/ ReleaseInterface
  \/ USBDeviceClose
  \/ ReleaseDevice

Spec == Init /\ [][Next]_vars

\* The process is never suspended for good: as long as main() has a next
\* statement, it is eventually executed (every platform call and every
\* usleep returns).
FairSpec == Spec /\ WF_vars(Next)

----------------------------------------------------------------------------
\* Observations on a run.

Exited == pc = "exit"

\* Number of occurrences of a call in the log.
Count(e) == Cardinality({j \in DOMAIN calls : calls[j] = e})
CountFn(f) == Cardinality({j \in DOMAIN calls : calls[j][1] = f})
\* Position of the first occurrence of a call in the log (0: none).
Pos(e) ==
  IF Count(e) = 0 THEN 0
  ELSE CHOOSE j \in DOMAIN calls :
         calls[j] = e /\ \A k \in 1 .. j - 1 : calls[k] # e

NotOk(c) == resp[c] \in {"okNone", "fail"}

\* The acquisition step that failed, from what the platform answered.
StepFailed(n) ==
  CASE n = 1 -> NotOk("dict") \/ NotOk("match") \/ NotOk("devNext")
    [] n = 2 -> NotOk("devPlug") \/ NotOk("devQuery")
    [] n = 3 -> NotOk("open") /\ NotOk("seize")
    [] n = 5 -> NotOk("ifIter") \/ NotOk("ifNext")
    [] n = 6 -> NotOk("ifPlug") \/ NotOk("ifQuery")
    [] OTHER -> FALSE

FatalSteps == {1, 2, 3, 5, 6}
Fatal == \E n \in FatalSteps : StepFailed(n)

\* The handles each acquisition step acquires.
HandlesOfStep(n) ==
  CASE n = 1 -> {"devIterator", "usbDevice"}
    [] n = 2 -> {"devPlugIn", "deviceInterface"}
    [] n = 5 -> {"ifIterator", "usbInterface"}
    [] n = 6 -> {"ifPlugIn", "interfaceInterface"}
    [] OTHER -> {}
HandlesBefore(n) == UNION {HandlesOfStep(m) : m \in 1 .. n - 1}

\* The call whose answer made step n fail.
FailingCall(n) ==
  CASE n = 2 -> IF NotOk("devPlug")
                  THEN Call("IOCreatePlugInInterfaceForService", "usbDevice")
                  ELSE Call("QueryInterface", "devPlugIn")
    [] n = 3 -> Call("USBDeviceOpenSeize", "deviceInterface")
    [] n = 5 -> IF NotOk("ifIter")
                  THEN Call("CreateInterfaceIterator", "deviceInterface")
                  ELSE Call("IOIteratorNext", "ifIterator")
    [] n = 6 -> IF NotOk("ifPlug")
                  THEN Call("IOCreatePlugInInterfaceForService", "usbInterface")
                  ELSE Call("QueryInterface", "ifPlugIn")

ReleaseFns == {"IOObjectRelease", "Release", "USBDeviceClose"}

\* Calls of the steps after Match and of everything that follows them.
BindFns == {"IOCreatePlugInInterfaceForService", "QueryInterface"}
OpenFns == {"USBDeviceOpen", "USBDeviceOpenSeize"}
AfterOpenFns ==
  {"SetConfiguration", "CreateInterfaceIterator", "USBInterfaceOpen",
   "GetNumEndpoints", "WritePipe(1)", "WritePipe(2)", "USBInterfaceClose"}
NoneOf(F) == \A j \in DOMAIN calls : calls[j][1] \notin F
NoLoopCall == queries = 0 /\ sends = 0 /\ sleeps = 0

TeardownCalls ==
  <<Call("USBInterfaceClose", "interfaceInterface"),
    Call("Release", "interfaceInterface"),
    Call("USBDeviceClose", "deviceInterface"),
    Call("Release", "deviceInterface")>>

InTeardown == \E j \in DOMAIN TeardownSteps : pc = TeardownSteps[j]

----------------------------------------------------------------------------
\* C1: when the process has exited, no handle acquired during the session
\* is still unreleased.
C1_NoHandleHeldAtExit ==
  Exited => \A h \in Handles : hs[h] # "held"

\* C2: in a session that failed at step N (2, 3, 5 or 6), at exit every
\* handle acquired in a step before N has been released exactly once, and
\* after the failing call only releases were issued.
C2_FailedStepReleasesEarlierHandles ==
  Exited =>
    \A n \in {2, 3, 5, 6} :
      StepFailed(n) =>
        /\ \A h \in HandlesBefore(n) :
             hs[h] # "none" => (hs[h] = "released" /\ rel[h] = 1)
        /\ LET p == Pos(FailingCall(n))
           IN  /\ p > 0
               /\ \A j \in p + 1 .. Len(calls) : calls[j][1] \in ReleaseFns
        /\ NoLoopCall

\* C3: in every state no handle has been released more than once and no
\* call was made on a handle after its release.
C3_ReleasedOnceNeverUsedAfter ==
  /\ \A h \in Handles : rel[h] <= 1
  /\ uar = {}

\* C4: when the search yields no device, the session has ended with a
\* non-zero status, no bind, open, configure, interface, pipe or write call
\* was issued, and neither interface handle was released.
C4_DeviceNotFound ==
  (NotOk("match") \/ NotOk("devNext")) =>
    /\ Exited
    /\ exitStatus # 0
    /\ NoneOf(BindFns \cup OpenFns \cup AfterOpenFns)
    /\ NoLoopCall
    /\ rel["deviceInterface"] = 0
    /\ rel["interfaceInterface"] = 0
    /\ CountFn("USBDeviceClose") = 0

C4_Witness ==
  /\ Exited
  /\ resp["devNext"] = "fail"
  /\ Count(Call("IOIteratorNext", "devIterator")) = 1

\* C5: the seize is attempted exactly when the first open failed, and once;
\* when both fail the session ends with a non-zero status and no later step
\* runs; when one succeeds the session goes on to Configure.
C5_OpenThenSeize ==
  /\ CountFn("USBDeviceOpen") <= 1
  /\ CountFn("USBDeviceOpenSeize") <= 1
  /\ CountFn("USBDeviceOpenSeize") = 1 => resp["open"] = "fail"
  /\ (resp["open"] = "fail" /\ pc # "USBDeviceOpenSeize")
       => CountFn("USBDeviceOpenSeize") = 1
  /\ (resp["open"] = "fail" /\ resp["seize"] = "fail") =>
       /\ Exited
       /\ exitStatus # 0
       /\ NoneOf(AfterOpenFns)
       /\ CountFn("IOCreatePlugInInterfaceForService") = 1
       /\ NoLoopCall
  /\ (resp["open"] = "ok" \/ resp["seize"] = "ok") =>
       \/ pc = "SetConfiguration"
       \/ CountFn("SetConfiguration") = 1

C5_Witness ==
  /\ Exited
  /\ resp["open"] = "fail"
  /\ resp["seize"] = "fail"
  /\ CountFn("USBDeviceOpenSeize") = 1

\* C6: a session that obtained the interface interface ends with exactly
\* interface close, interface release, device close, device release, each
\* once and in this order, and once the first of them is issued no pipe
\* query, send or sleep follows.
C6_TeardownOrder ==
  /\ [](Exited /\ hs["interfaceInterface"] # "none" =>
          LET p == Pos(TeardownCalls[1])
          IN  /\ p > 0
              /\ Len(calls) = p + 3
              /\ SubSeq(calls, p, p + 3) = TeardownCalls
              /\ \A j \in 1 .. 4 : Count(TeardownCalls[j]) = 1)
  /\ [][Count(TeardownCalls[1]) > 0 => UNCHANGED <<queries, sends, sleeps>>]_vars

C6_Witness ==
  /\ Exited
  /\ hs["interfaceInterface"] = "released"
  /\ Len(calls) > 4

\* C7: at exit, when the device interface was obtained, device close and
\* then device release were each executed exactly once, and when the
\* interface interface was obtained, interface close and then interface
\* release were each executed exactly once.
C7_TeardownUnconditional ==
  Exited =>
    /\ hs["deviceInterface"] # "none" =>
         /\ Count(TeardownCalls[3]) = 1
         /\ Count(TeardownCalls[4]) = 1
         /\ Pos(TeardownCalls[3]) < Pos(TeardownCalls[4])
    /\ hs["interfaceInterface"] # "none" =>
         /\ Count(TeardownCalls[1]) = 1
         /\ Count(TeardownCalls[2]) = 1
         /\ Pos(TeardownCalls[1]) < Pos(TeardownCalls[2])

\* C8: when the first send of the frame loop succeeded, sends and sleeps
\* alternate (one sleep between two consecutive sends) and the loop ends
\* after exactly FrameCount sends, whatever the later statuses.
C8_AllFramesSent ==
  firstSend = "ok" =>
    /\ sends <= FrameCount
    /\ pc = "WritePipeFrame" => sleeps = sends
    /\ pc = "usleep" => sends = sleeps + 1
    /\ (InTeardown \/ Exited) => (sends = FrameCount /\ sleeps = FrameCount)

C8_Witness ==
  /\ Exited
  /\ firstSend = "ok"
  /\ kr = "fail"
  /\ sends = FrameCount

\* C9: when the first send of the frame loop failed, exactly one send was
\* attempted, no sleep was performed, and the session is in teardown or
\* has exited.
C9_FirstSendFailureAborts ==
  firstSend = "fail" =>
    /\ sends = 1
    /\ sleeps = 0
    /\ InTeardown \/ Exited
    /\ Exited => exitStatus = 0

C9_Witness ==
  /\ Exited
  /\ firstSend = "fail"
  /\ hs["interfaceInterface"] = "released"

\* C10: the exit status is non-zero exactly when a fatal acquisition step
\* (1, 2, 3, 5 or 6) failed; failures of the other calls leave it 0.
C10_ExitStatusIffFatal ==
  Exited => (exitStatus # 0 <=> Fatal)

C10_Witness ==
  /\ Exited
  /\ exitStatus = 0
  /\ softFail
  /\ firstSend = "fail"

\* The pipe loop is over: the program is past lines 152-159.
PastPipeLoop ==
  pc \in {"WritePipe1", "WritePipe2", "WritePipeFrame", "usleep"}
    \/ InTeardown
    \/ (Exited /\ numEpStatus # "none")

\* C11: for the endpoint count K the platform reported, at most K pipe
\* queries are issued, the j-th query asks for index j, and once the loop
\* is over exactly K queries were issued.
C11_ExactlyKQueries ==
  numEpStatus = "ok" =>
    /\ queries <= numEndpoints
    /\ lastQuery = queries
    /\ PastPipeLoop => queries = numEndpoints

\* The handles as they are between OpenDevice and FindInterface.
HandlesAfterOpen ==
  [h \in Handles |->
     IF h \in {"devIterator", "usbDevice", "devPlugIn"} THEN "released"
     ELSE IF h = "deviceInterface" THEN "held" ELSE "none"]
ReleasesAfterOpen ==
  [h \in Handles |->
     IF h \in {"devIterator", "usbDevice", "devPlugIn"} THEN 1 ELSE 0]

\* The state of main() and of the platform between OpenDevice and
\* FindInterface, kr and the log left aside.
OpenedDeviceState ==
  /\ plugInInterface = "devPlugIn"
  /\ deviceInterface = "deviceInterface"
  /\ interfaceInterface = "NULL"
  /\ result = "ok"
  /\ iPipe = 0
  /\ iFrame = 0
  /\ hs = HandlesAfterOpen
  /\ rel = ReleasesAfterOpen
  /\ uar = {}
  /\ devOpen
  /\ ~ifOpen
  /\ NoLoopCall
  /\ exitStatus = -1

\* C12: whatever status SetConfiguration returns, the session goes on to
\* FindInterface with the device open and in the same state (only kr holds
\* the status), the outcome of FindInterface is decided by its own answer
\* alone, and the exit status by the later fatal steps alone.
C12_ConfigureNonFatal ==
  /\ [](pc = "CreateInterfaceIterator" =>
          /\ OpenedDeviceState
          /\ calls[Len(calls)] = Call("SetConfiguration", "deviceInterface")
          /\ CountFn("SetConfiguration") = 1)
  /\ [](Exited /\ CountFn("SetConfiguration") = 1 =>
          (exitStatus # 0 <=> (StepFailed(5) \/ StepFailed(6))))
  /\ [][pc = "SetConfiguration" =>
          /\ pc' = "CreateInterfaceIterator"
          /\ devOpen' = devOpen
          /\ exitStatus' = exitStatus]_vars
  /\ [][pc = "CreateInterfaceIterator" =>
          /\ kr' = resp'["ifIter"]
          /\ pc' = "exit" <=> resp'["ifIter"] = "fail"]_vars

C12_Witness ==
  /\ pc = "CreateInterfaceIterator"
  /\ kr = "fail"
  /\ devOpen
  /\ CountFn("SetConfiguration") = 1

\* C13: whatever status USBInterfaceOpen returns, the session goes on to
\* the endpoint-count query; the pipe loop issues as many queries as the
\* platform reported endpoints, and none when it reported no count.
C13_OpenInterfaceNonFatal ==
  /\ pc = "GetNumEndpoints" =>
       /\ exitStatus = -1
       /\ calls[Len(calls)] = Call("USBInterfaceOpen", "interfaceInterface")
  /\ numEpStatus = "fail" => queries = 0
  /\ (numEpStatus = "ok" /\ PastPipeLoop) => queries = numEndpoints

\* The service handle svc is released once, right after the plug-in
\* creation on it, and before the open call fn on handle h.
ReleasedRightAfterBind(svc, fn, h) ==
  LET create  == Call("IOCreatePlugInInterfaceForService", svc)
      release == Call("IOObjectRelease", svc)
  IN  /\ rel[svc] <= 1
      /\ Count(create) <= 1
      /\ Count(create) = 0 => (rel[svc] = 0 /\ Count(release) = 0)
      /\ Count(create) = 1 =>
           /\ rel[svc] = 1
           /\ hs[svc] = "released"
           /\ Count(release) = 1
           /\ Pos(release) = Pos(create) + 1
      /\ Count(Call(fn, h)) > 0 =>
           /\ Count(release) = 1
           /\ Pos(release) < Pos(Call(fn, h))

\* C14: the matched device service is released exactly once, right after
\* the plug-in creation for the device and before any open attempt, and the
\* interface service exactly once, right after the plug-in creation for the
\* interface and before USBInterfaceOpen, whatever the creation answered.
C14_ServiceReleasedAfterBind ==
  /\ ReleasedRightAfterBind("usbDevice", "USBDeviceOpen", "deviceInterface")
  /\ ReleasedRightAfterBind("usbInterface", "USBInterfaceOpen", "interfaceInterface")

C14_Witness ==
  /\ Exited
  /\ resp["devPlug"] = "fail"
  /\ rel["usbDevice"] = 1
  /\ Count(Call("IOObjectRelease", "usbDevice")) = 1

\* The acquisition statements of main() in program order; everything after
\* OpenInterface (and the exit) comes last.
AcquisitionOrder ==
  <<"IOServiceMatching", "IOServiceGetMatchingServices", "IOIteratorNext",
    "CreateDevicePlugIn", "QueryDeviceInterface", "USBDeviceOpen",
    "USBDeviceOpenSeize", "SetConfiguration", "CreateInterfaceIterator",
    "IOIteratorNextInterface", "CreateInterfacePlugIn",
    "QueryInterfaceInterface", "ReleaseInterfacePlugIn", "USBInterfaceOpen">>
AcqRank(p) ==
  IF \E j \in DOMAIN AcquisitionOrder : AcquisitionOrder[j] = p
    THEN CHOOSE j \in DOMAIN AcquisitionOrder : AcquisitionOrder[j] = p
    ELSE Len(AcquisitionOrder) + 1

\* The acquisition calls in the order of the steps, the seize left aside.
AcquisitionCalls ==
  <<Call("IOServiceMatching", "none"),
    Call("IOServiceGetMatchingServices", "none"),
    Call("IOIteratorNext", "devIterator"),
    Call("IOCreatePlugInInterfaceForService", "usbDevice"),
    Call("QueryInterface", "devPlugIn"),
    Call("USBDeviceOpen", "deviceInterface"),
    Call("SetConfiguration", "deviceInterface"),
    Call("CreateInterfaceIterator", "deviceInterface"),
    Call("IOIteratorNext", "ifIterator"),
    Call("IOCreatePlugInInterfaceForService", "usbInterface"),
    Call("QueryInterface", "ifPlugIn"),
    Call("USBInterfaceOpen", "interfaceInterface")>>

\* Call b is only issued after call a was.
Before(a, b) == Count(b) > 0 => (Count(a) > 0 /\ Pos(a) < Pos(b))

\* C15: acquisition only moves forward through Match, BindDeviceInterface,
\* OpenDevice, Configure, FindInterface, BindInterfaceInterface and
\* OpenInterface: no statement is executed twice, none after a later one,
\* each call is issued at most once per step, and the seize follows the
\* single first open.
C15_SequentialNoRetry ==
  /\ [][\/ AcqRank(pc') > AcqRank(pc)
        \/ (AcqRank(pc) = Len(AcquisitionOrder) + 1 /\ AcqRank(pc') = AcqRank(pc))]_vars
  /\ [](/\ \A f \in {"IOServiceMatching", "IOServiceGetMatchingServices",
                      "USBDeviceOpen", "USBDeviceOpenSeize", "SetConfiguration",
                      "CreateInterfaceIterator", "USBInterfaceOpen"} :
             CountFn(f) <= 1
        /\ \A f \in {"IOIteratorNext", "IOCreatePlugInInterfaceForService",
                      "QueryInterface"} :
             CountFn(f) <= 2
        /\ \A j \in 1 .. Len(AcquisitionCalls) - 1 :
             Before(AcquisitionCalls[j], AcquisitionCalls[j + 1])
        /\ Before(Call("USBDeviceOpen", "deviceInterface"),
                  Call("USBDeviceOpenSeize", "deviceInterface"))
        /\ (CountFn("USBDeviceOpenSeize") > 0 /\ CountFn("SetConfiguration") > 0) =>
             Pos(Call("USBDeviceOpenSeize", "deviceInterface"))
               < Pos(Call("SetConfiguration", "deviceInterface")))

C15_Witness ==
  /\ pc = "GetNumEndpoints"
  /\ resp["seize"] = "ok"
  /\ CountFn("USBDeviceOpenSeize") = 1
  /\ CountFn("USBInterfaceOpen") = 1

\* The open call that succeeded.
SuccessfulOpen ==
  IF resp["open"] = "ok" THEN Call("USBDeviceOpen", "deviceInterface")
  ELSE Call("USBDeviceOpenSeize", "deviceInterface")
DeviceOpened == resp["open"] = "ok" \/ resp["seize"] = "ok"

\* C16: whichever open attempt succeeded, main() arrives at Configure in
\* one and the same state (kr is a success status, only the log tells the
\* attempts apart), the call after the successful open is SetConfiguration,
\* and the exit status is decided by the steps after Configure alone.
C16_OpenAttemptNotDistinguished ==
  /\ pc = "SetConfiguration" =>
       /\ DeviceOpened
       /\ OpenedDeviceState
       /\ kr = "ok"
       /\ ~softFail
       /\ calls[Len(calls)] = SuccessfulOpen
  /\ DeviceOpened =>
       /\ Count(SuccessfulOpen) = 1
       /\ \/ pc = "SetConfiguration"
          \/ /\ Len(calls) > Pos(SuccessfulOpen)
             /\ calls[Pos(SuccessfulOpen) + 1]
                  = Call("SetConfiguration", "deviceInterface")
  /\ (Exited /\ DeviceOpened) =>
       (exitStatus # 0 <=> (StepFailed(5) \/ StepFailed(6)))

C16_Witness ==
  /\ Exited
  /\ exitStatus = 0
  /\ resp["open"] = "fail"
  /\ resp["seize"] = "ok"
  /\ Count(Call("SetConfiguration", "deviceInterface")) = 1

\* C19: every session reaches the process exit, with at most FrameCount
\* streamed sends issued.
C19_Terminates ==
  /\ [](sends <= FrameCount)
  /\ <>Exited

\* The calls after the pipe loop of a session that went through it.
CallsAfterEnumeration ==
  <<Call("WritePipe(1)", "interfaceInterface"),
    Call("WritePipe(2)", "interfaceInterface")>> \o TeardownCalls

\* What follows the pipe loop does not depend on the endpoint count or on
\* the answers to the pipe queries: the writes start from one state, and a
\* finished session has issued the same calls, the number of sends that the
\* first send decides, and has the exit status 0.
SameAfterEnumeration ==
  /\ pc = "WritePipe1" =>
       /\ calls[Len(calls)] = Call("GetNumEndpoints", "interfaceInterface")
       /\ interfaceInterface = "interfaceInterface"
       /\ hs["interfaceInterface"] = "held"
       /\ hs["deviceInterface"] = "held"
       /\ uar = {}
       /\ iFrame = 0
       /\ sends = 0
       /\ sleeps = 0
       /\ exitStatus = -1
  /\ (Exited /\ numEpStatus # "none") =>
       /\ exitStatus = 0
       /\ LET p == Pos(Call("GetNumEndpoints", "interfaceInterface"))
          IN  SubSeq(calls, p + 1, Len(calls)) = CallsAfterEnumeration
       /\ sends = (IF firstSend = "ok" THEN FrameCount ELSE 1)
       /\ sleeps = (IF firstSend = "ok" THEN FrameCount ELSE 0)

\* C17: whatever endpoint count and whatever answers to the pipe queries,
\* the session goes on to the same writes and the same teardown and ends
\* with the same exit status.
C17_EnumerationDiagnosticOnly ==
  /\ []SameAfterEnumeration
  /\ (numEpStatus # "none") ~> Exited

\* Before the frame loop each probe write is issued once, pipe 1 then
\* pipe 2, and the status of a probe changes neither the next statement
\* nor the exit status.
ProbesOnceInOrder ==
  /\ CountFn("WritePipe(1)") <= 1
  /\ CountFn("WritePipe(2)") <= 1
  /\ CountFn("WritePipe(2)") = 1 =>
       /\ CountFn("WritePipe(1)") = 1
       /\ Pos(Call("WritePipe(2)", "interfaceInterface"))
            = Pos(Call("WritePipe(1)", "interfaceInterface")) + 1
  /\ (sends > 0 \/ pc = "WritePipeFrame") => CountFn("WritePipe(2)") = 1
  /\ pc \in {"WritePipe2", "WritePipeFrame"} => exitStatus = -1
ProbeStep ==
  /\ pc = "WritePipe1" => pc' = "WritePipe2"
  /\ pc = "WritePipe2" => (pc' = "WritePipeFrame" /\ iFrame' = 0)

\* C18: every session that reaches OpenInterface issues one probe write to
\* pipe 1 and then one to pipe 2 before the frame loop; whatever their
\* statuses the frame loop starts and the session ends with the teardown.
C18_ProbesNeverAbort ==
  /\ []ProbesOnceInOrder
  /\ [][ProbeStep]_vars
  /\ (CountFn("USBInterfaceOpen") = 1) ~> (sends > 0)
  /\ (CountFn("USBInterfaceOpen") = 1) ~>
       (Exited /\ Count(TeardownCalls[4]) = 1 /\ exitStatus = 0)

====
